---- MODULE Spec2Model ----
(***************************************************************************)
(* single-spa-css: the lifecycle adapter of src/src/single-spa-css.ts.     *)
(*                                                                         *)
(* The adapter is constructed from a caller's configuration and returns    *)
(* three lifecycle functions.  mount and unmount share two structures,     *)
(* linkElements (URL -> element) and linkElementsToUnmount (the queue of   *)
(* [element, url] pairs).  The synchronous part of each call is one        *)
(* action; what a call defers (promise reaction jobs) is a microtask in a  *)
(* FIFO queue; load and error events of link elements are tasks of the     *)
(* event loop and run only when the microtask queue is empty.              *)
(* A custom createLink is outside the model: elements come from the        *)
(* default factory.                                                        *)
(***************************************************************************)
EXTENDS Integers, Sequences, FiniteSets, TLC

\* ---------------------------------------------------------------- bounds
MaxRefs == 2        \* longest caller-supplied cssUrls list
MaxMounts == 2      \* mount calls in one behaviour
MaxUnmounts == 2    \* unmount calls in one behaviour
MaxExternal == 1    \* insertions and removals done by other code
MaxBootstraps == 2  \* bootstrap calls in one behaviour

\* ------------------------------------------------------ values of the model
URLS == {"a.css", "b.css"}

\* A CssUrl: a bare string (isString) or a record {href, shouldUnmount};
\* hasOwn is cssUrl.hasOwnProperty("shouldUnmount").
StringRef(u) == [isString |-> TRUE, href |-> u, hasOwn |-> FALSE, shouldUnmount |-> FALSE]
RecordRef(u, own, flag) == [isString |-> FALSE, href |-> u, hasOwn |-> own, shouldUnmount |-> flag]
CssUrl == {StringRef(u) : u \in URLS}
            \cup {RecordRef(u, TRUE, f) : u \in URLS, f \in BOOLEAN}
            \cup {RecordRef(u, FALSE, FALSE) : u \in URLS}

SeqsUpTo(S, n) == UNION {[1..k -> S] : k \in 0..n}

\* The optional fields a caller may set: a set holding the value, or {}.
Optional(S) == {{}} \cup {{x} : x \in S}

\* Values of the timeout option, and of the createLink option: the factory
\* of defaultOptions or a function of the caller's.
Timeouts == {1000, 5000}
Factories == {"default", "custom"}

\* What the caller passes to singleSpaCss: isObject FALSE is a non-object
\* argument (null, a number); cssUrlsIsArray FALSE is a cssUrls field that
\* holds something other than an array (a string, a number).
SingleSpaCssOpts == [isObject : BOOLEAN,
                     cssUrlsIsArray : BOOLEAN,
                     cssUrls : SeqsUpTo(CssUrl, MaxRefs),
                     webpackExtractedCss : Optional(BOOLEAN),
                     timeout : Optional(Timeouts),
                     shouldUnmount : Optional(BOOLEAN),
                     createLink : Optional(Factories)]

WellFormed(o) == o.isObject /\ o.cssUrlsIsArray

\* The arguments singleSpaCss is constructed with in the lifecycle
\* specifications.  A non-object has no fields and a non-array no items;
\* an option set to its default value merges to the same options as the
\* option left out, so only the other value is passed explicitly; timeout
\* is read nowhere after the merge, and the factory is the default one.
Sound(o) ==
    /\ ~o.isObject => /\ o.cssUrlsIsArray /\ o.cssUrls = <<>>
                      /\ o.webpackExtractedCss = {} /\ o.shouldUnmount = {}
                      /\ o.timeout = {} /\ o.createLink = {}
    /\ ~o.cssUrlsIsArray => o.cssUrls = <<>>

Inputs == {o \in SingleSpaCssOpts :
             /\ Sound(o)
             /\ o.webpackExtractedCss \in {{}, {TRUE}}
             /\ o.shouldUnmount \in {{}, {FALSE}}
             /\ o.timeout = {} /\ o.createLink = {}}

\* Every argument of the model, each option left out or set to any value.
AllInputs == {o \in SingleSpaCssOpts : Sound(o)}

defaultOptions == [cssUrls |-> <<>>, cssUrlsIsArray |-> TRUE,
                   webpackExtractedCss |-> FALSE, timeout |-> 5000,
                   shouldUnmount |-> TRUE, createLink |-> "default"]

\* Object.assign({}, defaultOptions, _opts): own fields of _opts win; a
\* non-object argument contributes nothing.
\* Faulty variant of Pick: the default always wins.
PickDefault(opt, dflt) == dflt

Pick(opt, dflt) == IF opt = {} THEN dflt ELSE CHOOSE x \in opt : TRUE
MergeOptions(o) ==
    IF ~o.isObject THEN defaultOptions
    ELSE [cssUrls |-> o.cssUrls, cssUrlsIsArray |-> o.cssUrlsIsArray,
          webpackExtractedCss |-> Pick(o.webpackExtractedCss, defaultOptions.webpackExtractedCss),
          timeout |-> Pick(o.timeout, defaultOptions.timeout),
          shouldUnmount |-> Pick(o.shouldUnmount, defaultOptions.shouldUnmount),
          createLink |-> Pick(o.createLink, defaultOptions.createLink)]

\* __webpack_require__.cssAssets, cssAssetFileName and __webpack_public_path__
webpackCssAssets == <<"b">>
cssAssetFileName(fileName) == fileName \o ".css"
webpackPublicPath == ""
WebpackUrls == [i \in 1..Len(webpackCssAssets) |->
                  StringRef(webpackPublicPath \o cssAssetFileName(webpackCssAssets[i]))]

VARIABLES
    input,                  \* the caller's configuration object
    adapter,                \* "none" | "returned" | "threw"
    opts,                   \* the merged options
    allCssUrls,             \* the effective list (aliases the caller's array)
    linkElements,           \* URL -> element
    linkElementsToUnmount,  \* sequence of <<element, url>>
    els,                    \* every element ever created, by id
    head,                   \* ids of the attached elements, document order
    mounts,                 \* one record per mount call
    unmounts,               \* one record per unmount call
    microtasks,             \* the pending promise jobs, FIFO
    lastCall,               \* the lifecycle function called last
    external,               \* how often other code changed the document
    bootstraps,             \* how often bootstrap was called
    extracted               \* the last application of extractUrl, if any

vars == <<input, adapter, opts, allCssUrls, linkElements, linkElementsToUnmount,
          els, head, mounts, unmounts, microtasks, lastCall, external,
          bootstraps, extracted>>

\* What the mount and unmount stages never touch.
aside == <<bootstraps, extracted>>

Init ==
    /\ input \in Inputs
    /\ adapter = "none"
    /\ opts = defaultOptions
    /\ allCssUrls = <<>>
    /\ linkElements = [u \in {} |-> 0]
    /\ linkElementsToUnmount = <<>>
    /\ els = <<>>
    /\ head = <<>>
    /\ mounts = <<>>
    /\ unmounts = <<>>
    /\ microtasks = <<>>
    /\ lastCall = "none"
    /\ external = 0
    /\ bootstraps = 0
    /\ extracted = <<>>

\* ------------------------------------------------------------ construction
\* singleSpaCss(_opts), lines 27-58 and 178: merge the options, alias the
\* caller's list, push the webpack assets onto it, create the shared state,
\* return the lifecycle functions.  Nothing validates _opts; the only throw
\* is push called on a cssUrls that is not an array.
singleSpaCss ==
    /\ adapter = "none"
    /\ LET o == MergeOptions(input)
           throws == o.webpackExtractedCss /\ ~o.cssUrlsIsArray
           pushed == IF o.webpackExtractedCss /\ o.cssUrlsIsArray
                     THEN o.cssUrls \o WebpackUrls ELSE o.cssUrls
       IN /\ opts' = [o EXCEPT !.cssUrls = pushed]
          /\ allCssUrls' = pushed
          /\ input' = IF input.isObject THEN [input EXCEPT !.cssUrls = pushed] ELSE input
          /\ adapter' = IF throws THEN "threw" ELSE "returned"
    /\ linkElements' = [u \in {} |-> 0]
    /\ linkElementsToUnmount' = <<>>
    /\ UNCHANGED <<els, head, mounts, unmounts, microtasks, lastCall, external>>
    /\ UNCHANGED aside

\* ------------------------------------------------------------ the document
\* An element: its href and rel attributes, who created it, and the state
\* of its resource ("loading", "loaded" after the load event, "error" after
\* the error event; "n/a" for elements of other code, whose events nobody
\* here listens to).  shouldUnmount is the flag of the reference it was
\* created for; as is the as attribute, set on preload hints only.
Element(url, rel, by) ==
    [href |-> url, rel |-> rel, as |-> "", by |-> by, shouldUnmount |-> FALSE,
     state |-> IF by = "adapter" THEN "loading" ELSE "n/a"]

\* defaultOptions.createLink
createLink(url) == Element(url, "stylesheet", "adapter")

Attached(doc) == {doc[i] : i \in 1..Len(doc)}

\* document.querySelector(`link[rel="<rel>"][href="<url>"]`): the first
\* matching element in document order, 0 (null) when there is none.
querySelector(doc, e, rel, url) ==
    LET hits == {i \in 1..Len(doc) : e[doc[i]].rel = rel /\ e[doc[i]].href = url}
    IN IF hits = {} THEN 0
       ELSE doc[CHOOSE i \in hits : \A j \in hits : i <= j]

\* Faulty variant of removeChild: the element stays where it is.
removeChildKeeps(doc, el) == doc

\* parentNode.removeChild(el)
removeChild(doc, el) == SelectSeq(doc, LAMBDA x : x # el)

\* ------------------------------------------------------------ extractUrl
\* Faulty variant of extractUrl: a record's own flag is not read.
extractUrlIgnoresOwn(cssUrl) == <<cssUrl.href, opts.shouldUnmount>>

extractUrl(cssUrl) ==
    IF cssUrl.isString
    THEN <<cssUrl.href, opts.shouldUnmount>>
    ELSE <<cssUrl.href,
           IF cssUrl.hasOwn THEN cssUrl.shouldUnmount ELSE opts.shouldUnmount>>

\* Faulty variants of DeleteLink: the entry is kept; every entry is dropped.
DeleteLinkForgotten(reg, url) == reg

DeleteLinkAll(reg, url) == [u \in {} |-> 0]

\* Faulty variant of SetLink: the element is not registered.
SetLinkForgotten(reg, url, el) == reg

\* Assignment linkElements[url] = el and delete linkElements[url].
SetLink(reg, url, el) ==
    [u \in DOMAIN reg \cup {url} |-> IF u = url THEN el ELSE reg[u]]
DeleteLink(reg, url) == [u \in DOMAIN reg \ {url} |-> reg[u]]

\* ------------------------------------------------------------ scheduling
\* A promise reaction job.  Lifecycle calls come from the orchestrator's
\* code, which runs as a task or as a job of its own, so a call is possible
\* between two jobs unless they are bound to run back to back:
\*   - the callbacks unmount schedules for one claimed list are queued by one
\*     synchronous loop (idx > 1 marks the continuation of such a run);
\*   - the job a load listener causes is queued by the browser's event task
\*     on an empty queue and runs when that task ends (fromTask).
Job(kind, call, idx) == [kind |-> kind, call |-> call, idx |-> idx, fromTask |-> FALSE]

CallPoint ==
    IF microtasks = <<>> THEN TRUE
    ELSE /\ ~(Head(microtasks).kind = "remove" /\ Head(microtasks).idx > 1)
         /\ ~Head(microtasks).fromTask

\* ------------------------------------------------------------------ mount
\* Faulty variant of existingLink: the lookup finds nothing.
existingLinkNever(doc, e, url) == 0

\* The lookup of line 113.
existingLink(doc, e, url) == querySelector(doc, e, "stylesheet", url)

\* Faulty variant of pushesToUnmount: the flag is not consulted.
pushesToUnmountAlways(shouldUnmount) == TRUE

\* The test of line 130.
pushesToUnmount(shouldUnmount) == shouldUnmount

\* The executor of one per-URL promise, lines 110-134.  st carries the
\* document, the shared state, and what this call created and waits for.
\* Faulty variant of adopt: the element found is queued for unmount too.
adoptQueues(st, url, existingLinkEl) ==
    [st EXCEPT !.linkElements = SetLink(@, url, existingLinkEl),
               !.adopted = @ \cup {existingLinkEl},
               !.queue = Append(@, <<existingLinkEl, url>>)]

\* The branch of lines 117-119: the element found is registered, and the
\* per-URL promise resolved; nothing else.
adopt(st, url, existingLinkEl) ==
    [st EXCEPT !.linkElements = SetLink(@, url, existingLinkEl),
               !.adopted = @ \cup {existingLinkEl}]

mountOne(st, cssUrl) ==
    LET ex == extractUrl(cssUrl)
        url == ex[1]
        shouldUnmount == ex[2]
        existingLinkEl == existingLink(st.head, st.els, url)
        linkEl == Len(st.els) + 1
    IN IF existingLinkEl # 0
       THEN adopt(st, url, existingLinkEl)
       ELSE [st EXCEPT
               !.els = Append(@, [createLink(url) EXCEPT !.shouldUnmount = shouldUnmount]),
               !.waiting = @ \cup {linkEl},
               !.created = @ \cup {linkEl},
               !.linkElements = SetLink(@, url, linkEl),
               !.head = Append(@, linkEl),
               !.queue = IF pushesToUnmount(shouldUnmount)
                         THEN Append(@, <<linkEl, url>>) ELSE @]

\* allCssUrls.map(...): the executors run synchronously, in list order.
RECURSIVE mountEach(_, _)
mountEach(i, st) ==
    IF i > Len(allCssUrls) THEN st
    ELSE mountEach(i + 1, mountOne(st, allCssUrls[i]))

\* Faulty variant of allSettledAtCall: pending loads are not waited for.
allSettledAtCallIgnoresLoads(n, waiting) == n > 0

\* Promise.all over the per-URL promises: fulfilled at once for an empty
\* list; otherwise fulfilled by the reaction job of the promise that is
\* resolved last, which is queued when that promise is resolved.
allSettledAtCall(n, waiting) == n > 0 /\ waiting = {}

mount ==
    /\ adapter = "returned"
    /\ opts.cssUrlsIsArray
    /\ Len(mounts) < MaxMounts
    /\ CallPoint
    /\ LET st == mountEach(1, [els |-> els, head |-> head,
                               linkElements |-> linkElements,
                               queue |-> linkElementsToUnmount,
                               created |-> {}, adopted |-> {},
                               waiting |-> {}])
           n == Len(allCssUrls)
       IN /\ els' = st.els
          /\ head' = st.head
          /\ linkElements' = st.linkElements
          /\ linkElementsToUnmount' = st.queue
          /\ mounts' = Append(mounts, [created |-> st.created, adopted |-> st.adopted,
                                    waiting |-> st.waiting,
                                       st |-> IF n = 0 THEN "resolved" ELSE "pending"])
          /\ microtasks' = IF allSettledAtCall(n, st.waiting)
                           THEN Append(microtasks, Job("mountSettle", Len(mounts) + 1, 0))
                           ELSE microtasks
    /\ lastCall' = "mount"
    /\ UNCHANGED <<input, adapter, opts, allCssUrls, unmounts, external>>
    /\ UNCHANGED aside

\* allCssUrls.map is not a function when cssUrls is not an array: the call
\* throws a TypeError before it touches the document.
mountTypeError ==
    /\ adapter = "returned"
    /\ ~opts.cssUrlsIsArray
    /\ Len(mounts) < MaxMounts
    /\ CallPoint
    /\ mounts' = Append(mounts, [created |-> {}, adopted |-> {}, waiting |-> {},
                                 st |-> "threw"])
    /\ lastCall' = "mount"
    /\ UNCHANGED <<input, adapter, opts, allCssUrls, linkElements,
                   linkElementsToUnmount, els, head, unmounts, microtasks, external>>
    /\ UNCHANGED aside

\* Variants of onEvent: an error listener that rejects; a load listener
\* that does not resolve.
onEventErrorRejects(m, el, ev) ==
    IF ev = "load" THEN [m EXCEPT !.waiting = @ \ {el}] ELSE [m EXCEPT !.st = "rejected"]

onEventIgnored(m, el, ev) == m

\* The listeners mount registers on a created element (lines 124-126): the
\* load listener resolves the per-URL promise; nothing listens to error.
onEvent(m, el, ev) ==
    IF ev = "load" THEN [m EXCEPT !.waiting = @ \ {el}] ELSE m

\* The browser fires load or error on a link element the adapter created,
\* in a task of its own, when the fetch started by the insertion ends; the
\* fetch of an element taken out of the document is dropped.
dispatchEvent(el, ev) ==
    /\ microtasks = <<>>
    /\ el \in Attached(head)
    /\ els[el].state = "loading"
    /\ els' = [els EXCEPT ![el].state = IF ev = "load" THEN "loaded" ELSE "error"]
    /\ LET heard == {c \in 1..Len(mounts) : el \in mounts[c].waiting}
           after == [c \in 1..Len(mounts) |->
                       IF c \in heard THEN onEvent(mounts[c], el, ev) ELSE mounts[c]]
           done == {c \in heard : after[c].st = "pending" /\ after[c].waiting = {}}
       IN /\ mounts' = after
          /\ microtasks' = IF done = {} THEN microtasks
                           ELSE <<[Job("mountSettle", CHOOSE c \in done : TRUE, 0)
                                     EXCEPT !.fromTask = TRUE]>>
    /\ UNCHANGED <<input, adapter, opts, allCssUrls, linkElements,
                   linkElementsToUnmount, head, unmounts, lastCall, external>>
    /\ UNCHANGED aside

load == \E el \in 1..Len(els) : dispatchEvent(el, "load")
error == \E el \in 1..Len(els) : dispatchEvent(el, "error")

\* The reaction job that fulfils the promise mount returned.
mountSettle ==
    /\ microtasks # <<>>
    /\ Head(microtasks).kind = "mountSettle"
    /\ mounts' = [mounts EXCEPT ![Head(microtasks).call].st = "resolved"]
    /\ microtasks' = Tail(microtasks)
    /\ UNCHANGED <<input, adapter, opts, allCssUrls, linkElements,
                   linkElementsToUnmount, els, head, unmounts, lastCall, external>>
    /\ UNCHANGED aside

\* ---------------------------------------------------------------- unmount
\* Lines 145-162.  The claim (read the queue, then reset it) is synchronous;
\* each claimed pair gets a callback queued by Promise.resolve().then.
\* Kept for the record of a call: detached (the elements its callbacks took
\* out of the document), ran (how many of its callbacks have run),
\* mountsBefore (the mount calls that preceded it), immediate (it follows
\* another unmount call, none of whose callbacks has run yet).

\* Faulty variant of claim: the queue is not reset.
claimKeepsQueue(queue) == <<queue, queue>>

\* Lines 146 and 150: the claimed list and what the queue is reset to.
claim(queue) == <<queue, <<>>>>

unmount ==
    /\ adapter = "returned"
    /\ Len(unmounts) < MaxUnmounts
    /\ CallPoint
    /\ LET elements == claim(linkElementsToUnmount)[1]
           id == Len(unmounts) + 1
       IN /\ linkElementsToUnmount' = claim(linkElementsToUnmount)[2]
          /\ unmounts' = Append(unmounts,
                 [claimed |-> elements, detached |-> <<>>, ran |-> 0,
                  mountsBefore |-> Len(mounts),
                  immediate |-> /\ lastCall = "unmount"
                                /\ unmounts[id - 1].ran = 0,
                  st |-> IF elements = <<>> THEN "resolved" ELSE "pending"])
          /\ microtasks' = microtasks \o
                 [i \in 1..Len(elements) |-> Job("remove", id, i)]
    /\ lastCall' = "unmount"
    /\ UNCHANGED <<input, adapter, opts, allCssUrls, linkElements, els, head, mounts,
                   external>>
    /\ UNCHANGED aside

\* The test of line 156.
hasParent(doc, linkEl) == linkEl \in Attached(doc)

\* One callback of lines 154-159.  The job that fulfils the promise unmount
\* returned is queued when the last callback has run.
remove ==
    /\ microtasks # <<>>
    /\ Head(microtasks).kind = "remove"
    /\ LET job == Head(microtasks)
           u == unmounts[job.call]
           linkEl == u.claimed[job.idx][1]
           url == u.claimed[job.idx][2]
           last == job.idx = Len(u.claimed)
       IN /\ linkElements' = DeleteLink(linkElements, url)
          /\ IF hasParent(head, linkEl)
             THEN /\ head' = removeChild(head, linkEl)
                  /\ unmounts' = [unmounts EXCEPT ![job.call].detached = Append(@, linkEl),
                                                  ![job.call].ran = @ + 1]
             ELSE /\ head' = head
                  /\ unmounts' = [unmounts EXCEPT ![job.call].ran = @ + 1]
          /\ microtasks' = IF last
                           THEN Append(Tail(microtasks), Job("unmountSettle", job.call, 0))
                           ELSE Tail(microtasks)
    /\ UNCHANGED <<input, adapter, opts, allCssUrls, linkElementsToUnmount,
                   els, mounts, lastCall, external>>
    /\ UNCHANGED aside

unmountSettle ==
    /\ microtasks # <<>>
    /\ Head(microtasks).kind = "unmountSettle"
    /\ unmounts' = [unmounts EXCEPT ![Head(microtasks).call].st = "resolved"]
    /\ microtasks' = Tail(microtasks)
    /\ UNCHANGED <<input, adapter, opts, allCssUrls, linkElements,
                   linkElementsToUnmount, els, head, mounts, lastCall, external>>
    /\ UNCHANGED aside

\* --------------------------------------------------------------- bootstrap
\* The element bootstrap creates for a URL, lines 81-87: a preload hint for
\* a style; the adapter puts no listener on it.
preloadLink(url) ==
    [Element(url, "preload", "adapter") EXCEPT !.as = "style", !.state = "n/a"]

\* Faulty variant of existingPreload: the lookup never finds a hint.
existingPreloadNever(doc, e, url) == 0

\* document.querySelector(`link[rel="preload"][as="style"][href="<url>"]`),
\* lines 75-77: the first match in document order, 0 (null) when none.
existingPreload(doc, e, url) ==
    LET hits == {i \in 1..Len(doc) : /\ e[doc[i]].rel = "preload"
                                     /\ e[doc[i]].as = "style"
                                     /\ e[doc[i]].href = url}
    IN IF hits = {} THEN 0
       ELSE doc[CHOOSE i \in hits : \A j \in hits : i <= j]

\* The executor of one per-URL promise, lines 72-94; st is the document so
\* far (fields els, head).
bootstrapOne(st, cssUrl) ==
    LET url == extractUrl(cssUrl)[1]
        preloadEl == existingPreload(st.head, st.els, url)
    IN IF preloadEl # 0 THEN st
       ELSE [els |-> Append(st.els, preloadLink(url)),
             head |-> Append(st.head, Len(st.els) + 1)]

RECURSIVE bootstrapEach(_, _)
bootstrapEach(st, urls) ==
    IF urls = <<>> THEN st
    ELSE bootstrapEach(bootstrapOne(st, Head(urls)), Tail(urls))

\* bootstrap(props), lines 68-97: the executors run one after the other
\* inside the call and each resolves at once, so the returned promise
\* depends on no event.
bootstrap ==
    /\ adapter = "returned"
    /\ opts.cssUrlsIsArray
    /\ bootstraps < MaxBootstraps
    /\ CallPoint
    /\ LET st == bootstrapEach([els |-> els, head |-> head], allCssUrls)
       IN /\ els' = st.els
          /\ head' = st.head
    /\ bootstraps' = bootstraps + 1
    /\ UNCHANGED <<input, adapter, opts, allCssUrls, linkElements,
                   linkElementsToUnmount, mounts, unmounts, microtasks,
                   lastCall, external, extracted>>

\* bootstrap on a cssUrls that is no array: allCssUrls.map, line 70, throws.
bootstrapTypeError ==
    /\ adapter = "returned"
    /\ ~opts.cssUrlsIsArray
    /\ bootstraps < MaxBootstraps
    /\ CallPoint
    /\ bootstraps' = bootstraps + 1
    /\ UNCHANGED <<input, adapter, opts, allCssUrls, linkElements,
                   linkElementsToUnmount, els, head, mounts, unmounts,
                   microtasks, lastCall, external, extracted>>

\* ------------------------------------------------------------- other code
\* Code outside the adapter appends a stylesheet link for a URL, or
\* detaches an attached stylesheet link (the adapter's included), once the
\* adapter exists (what it does earlier gives the same documents).
externalInsert ==
    /\ adapter = "returned"
    /\ CallPoint
    /\ external < MaxExternal
    /\ \E u \in URLS :
         /\ els' = Append(els, Element(u, "stylesheet", "external"))
         /\ head' = Append(head, Len(els) + 1)
    /\ external' = external + 1
    /\ UNCHANGED <<input, adapter, opts, allCssUrls, linkElements,
                   linkElementsToUnmount, mounts, unmounts, microtasks, lastCall>>
    /\ UNCHANGED aside

externalRemove ==
    /\ adapter = "returned"
    /\ CallPoint
    /\ external < MaxExternal
    /\ \E el \in Attached(head) :
         head' = removeChild(head, el)
    /\ external' = external + 1
    /\ UNCHANGED <<input, adapter, opts, allCssUrls, linkElements,
                   linkElementsToUnmount, els, mounts, unmounts, microtasks, lastCall>>
    /\ UNCHANGED aside

\* Other code appends a preload hint for a URL, for a style or for a script.
externalInsertHint ==
    /\ adapter = "returned"
    /\ CallPoint
    /\ external < MaxExternal
    /\ \E u \in URLS, a \in {"style", "script"} :
         /\ els' = Append(els, [Element(u, "preload", "external") EXCEPT !.as = a])
         /\ head' = Append(head, Len(els) + 1)
    /\ external' = external + 1
    /\ UNCHANGED <<input, adapter, opts, allCssUrls, linkElements,
                   linkElementsToUnmount, mounts, unmounts, microtasks, lastCall>>
    /\ UNCHANGED aside

\* ---------------------------------------------------------- specifications
Lifecycle ==
    \/ singleSpaCss
    \/ mount
    \/ mountTypeError
    \/ unmount
    \/ load
    \/ error
    \/ mountSettle
    \/ remove
    \/ unmountSettle

Next ==
    \/ Lifecycle
    \/ externalInsert
    \/ externalRemove

\* The adapter in a page where other code inserts and detaches stylesheets.
Spec == Init /\ [][Next]_vars

\* The adapter alone with the document.
SpecAdapter == Init /\ [][Lifecycle]_vars

\* The adapter alone, with the event loop's guarantee that a queued job
\* runs: the microtask queue is drained before the next task starts.
FairSpec ==
    /\ Init
    /\ [][Lifecycle]_vars
    /\ WF_vars(mountSettle)
    /\ WF_vars(remove)
    /\ WF_vars(unmountSettle)

\* The bootstrap stage in a page where other code inserts preload hints and
\* detaches elements.
Bootstrapping ==
    \/ singleSpaCss
    \/ bootstrap
    \/ bootstrapTypeError
    \/ externalInsertHint
    \/ externalRemove

SpecBootstrap == Init /\ [][Bootstrapping]_vars

\* The option merge and extractUrl as functions: every argument of the
\* model is constructed with, and extractUrl is applied to the items of the
\* effective list, as bootstrap and mount apply it.
InitAll ==
    /\ input \in AllInputs
    /\ adapter = "none"
    /\ opts = defaultOptions
    /\ allCssUrls = <<>>
    /\ linkElements = [u \in {} |-> 0]
    /\ linkElementsToUnmount = <<>>
    /\ els = <<>>
    /\ head = <<>>
    /\ mounts = <<>>
    /\ unmounts = <<>>
    /\ microtasks = <<>>
    /\ lastCall = "none"
    /\ external = 0
    /\ bootstraps = 0
    /\ extracted = <<>>

extract ==
    /\ adapter = "returned"
    /\ opts.cssUrlsIsArray
    /\ \E i \in 1..Len(allCssUrls) :
          extracted' = <<allCssUrls[i], extractUrl(allCssUrls[i])>>
    /\ UNCHANGED <<input, adapter, opts, allCssUrls, linkElements,
                   linkElementsToUnmount, els, head, mounts, unmounts,
                   microtasks, lastCall, external, bootstraps>>

Functions ==
    \/ singleSpaCss
    \/ extract

SpecFunctions == InitAll /\ [][Functions]_vars

\* ------------------------------------------------------- shared vocabulary
MountStep == Len(mounts') = Len(mounts) + 1
UnmountStep == Len(unmounts') = Len(unmounts) + 1

\* The stylesheet elements for url that are attached to doc.
Stylesheets(doc, e, url) ==
    {x \in Attached(doc) : e[x].rel = "stylesheet" /\ e[x].href = url}

ConfiguredUrls == {allCssUrls[i].href : i \in 1..Len(allCssUrls)}

QueuedUrls(queue) == {queue[i][2] : i \in 1..Len(queue)}
QueuedEls(queue) == {queue[i][1] : i \in 1..Len(queue)}

\* How often el occurs in the sequence s.
Occurrences(s, el) == Cardinality({i \in 1..Len(s) : s[i] = el})

\* ---------------------------------------------------------------------- C1
\* C1: a mount call inserts no element and queues no pair for a configured
\* URL that has a stylesheet element attached when the call starts, whoever
\* created that element; when every configured URL has one (as in a second
\* mount issued while the first mount's elements are attached), the call
\* leaves the document and the queue as they were.
C1_MountAdoptsExisting ==
    [][MountStep =>
        /\ \A u \in ConfiguredUrls :
              Stylesheets(head, els, u) # {} =>
                 /\ Stylesheets(head', els', u) = Stylesheets(head, els, u)
                 /\ \A k \in 1..Len(linkElementsToUnmount') :
                       linkElementsToUnmount'[k][2] = u =>
                          /\ k <= Len(linkElementsToUnmount)
                          /\ linkElementsToUnmount'[k] = linkElementsToUnmount[k]
        /\ (\A u \in ConfiguredUrls : Stylesheets(head, els, u) # {}) =>
              /\ head' = head
              /\ linkElementsToUnmount' = linkElementsToUnmount]_vars

\* A second mount has adopted everything: the elements the first mount
\* created are attached, one configured URL is served by an element of
\* other code, and the queue still holds what the first mount queued.
C1_Witness ==
    /\ Len(mounts) = 2
    /\ mounts[1].created # {}
    /\ mounts[1].created \subseteq Attached(head)
    /\ mounts[2].created = {}
    /\ linkElementsToUnmount # <<>>
    /\ \E u \in DOMAIN linkElements : els[linkElements[u]].by = "external"

\* ---------------------------------------------------------------------- C2
\* C2: of two unmount calls in immediate succession (the second starts
\* before any callback of the first has run), the second claims nothing and
\* neither detaches an element nor touches the registry; the queue is empty
\* after the claim step of every unmount call; and once the first call has
\* completed, each element it claimed is out of the document and was
\* detached exactly once, all calls counted.
C2_Invariant ==
    /\ \A k \in 1..Len(unmounts) :
          /\ unmounts[k].immediate =>
                /\ unmounts[k].claimed = <<>>
                /\ unmounts[k].detached = <<>>
                /\ unmounts[k].ran = 0
                /\ unmounts[k].st = "resolved"
          /\ (k < Len(unmounts) /\ unmounts[k + 1].immediate
                /\ unmounts[k].st = "resolved") =>
                \A i \in 1..Len(unmounts[k].claimed) :
                   LET el == unmounts[k].claimed[i][1]
                   IN /\ el \notin Attached(head)
                      /\ Cardinality({j \in 1..Len(unmounts) :
                              Occurrences(unmounts[j].detached, el) > 0}) = 1
                      /\ \A j \in 1..Len(unmounts) :
                              Occurrences(unmounts[j].detached, el) <= 1
    /\ \A i \in 1..Len(microtasks) :
          microtasks[i].kind = "remove" => ~unmounts[microtasks[i].call].immediate
    /\ (lastCall = "unmount" /\ unmounts[Len(unmounts)].ran = 0) =>
          linkElementsToUnmount = <<>>

\* Both calls have completed; the first had claimed two elements and the
\* second was made before any of them was detached.
C2_Witness ==
    /\ Len(unmounts) = 2
    /\ unmounts[2].immediate
    /\ Len(unmounts[1].claimed) = 2
    /\ unmounts[1].st = "resolved"
    /\ Len(unmounts[1].detached) = 2

\* ---------------------------------------------------------------------- C3
Resolves(c) == mounts[c].st = "pending" /\ mounts'[c].st = "resolved"

\* C3: when the promise a mount call returned is fulfilled, every configured
\* URL has a stylesheet element attached to the document.
C3_ResolvedMeansAttached ==
    [][\A c \in 1..Len(mounts) :
          Resolves(c) =>
             \A u \in ConfiguredUrls : Stylesheets(head', els', u) # {}]_vars

\* ---------------------------------------------------------------------- C4
\* C4: the promise of a mount call is fulfilled only when every element the
\* call created has fired its load event and no per-URL promise of the call
\* is still pending.
C4_ResolvedMeansLoaded ==
    \A c \in 1..Len(mounts) :
       mounts[c].st = "resolved" =>
          /\ mounts[c].waiting = {}
          /\ \A el \in mounts[c].created : els[el].state = "loaded"

\* A fulfilled mount call that created two elements.
C4_Witness ==
    \E c \in 1..Len(mounts) :
       /\ mounts[c].st = "resolved"
       /\ Cardinality(mounts[c].created) = 2

\* ---------------------------------------------------------------------- C5
ExplicitlyKept(cssUrl) == ~cssUrl.isString /\ cssUrl.hasOwn /\ ~cssUrl.shouldUnmount

\* C5 as stated: the URL of a record with shouldUnmount explicitly false is
\* never the URL of a queued pair, whatever else the list holds.
C5_ExplicitFalseNeverQueued ==
    \A i \in 1..Len(allCssUrls) :
       ExplicitlyKept(allCssUrls[i]) =>
          allCssUrls[i].href \notin QueuedUrls(linkElementsToUnmount)

\* C5 as amended: the URL of a record with shouldUnmount explicitly false is
\* never the URL of a queued pair, whatever the default, unless an earlier
\* reference of the list names the same URL with an effective flag of true.
C5_ExplicitFalseQueuedOnlyByEarlierRef ==
    \A i \in 1..Len(allCssUrls) :
       (/\ ExplicitlyKept(allCssUrls[i])
        /\ \A j \in 1..(i - 1) :
              allCssUrls[j].href = allCssUrls[i].href => ~extractUrl(allCssUrls[j])[2]) =>
          allCssUrls[i].href \notin QueuedUrls(linkElementsToUnmount)

\* The default is true, a string reference has been queued, and the element
\* created for an explicitly kept record is attached and not queued.
C5_Witness ==
    /\ opts.shouldUnmount
    /\ linkElementsToUnmount # <<>>
    /\ \E i \in 1..Len(allCssUrls) :
          /\ ExplicitlyKept(allCssUrls[i])
          /\ allCssUrls[i].href \notin QueuedUrls(linkElementsToUnmount)
          /\ \E c \in 1..Len(mounts) : \E el \in mounts[c].created :
                els[el].href = allCssUrls[i].href /\ el \in Attached(head)

\* ---------------------------------------------------------------------- C6
\* The flag of a URL: the flag of the first reference that names it, the
\* one mount creates the element for.
FirstRef(u) ==
    allCssUrls[CHOOSE i \in 1..Len(allCssUrls) :
                  /\ allCssUrls[i].href = u
                  /\ \A j \in 1..(i - 1) : allCssUrls[j].href # u]
UrlFlag(u) == extractUrl(FirstRef(u))[2]

\* The unmount calls made after the first mount call.
Following == {k \in 1..Len(unmounts) : unmounts[k].mountsBefore = 1}

\* C6: from a document without stylesheets, once the one mount call has
\* completed the registry holds every configured URL and the queue holds
\* exactly the created elements of the URLs whose flag is true; once a
\* following unmount call has completed, the registry holds exactly the
\* URLs whose flag is false, their elements are attached, the elements of
\* the other URLs are not, and the queue is empty.
C6_EndToEnd ==
    (Len(mounts) = 1 /\ mounts[1].st = "resolved") =>
       /\ {els[e].href : e \in mounts[1].created} = ConfiguredUrls
       /\ Cardinality(mounts[1].created) = Cardinality(ConfiguredUrls)
       /\ Following = {} =>
             /\ DOMAIN linkElements = ConfiguredUrls
             /\ \A u \in ConfiguredUrls : linkElements[u] \in mounts[1].created
                                          /\ els[linkElements[u]].href = u
             /\ QueuedEls(linkElementsToUnmount) =
                   {e \in mounts[1].created : UrlFlag(els[e].href)}
             /\ \A i \in 1..Len(linkElementsToUnmount) :
                   linkElementsToUnmount[i][2] = els[linkElementsToUnmount[i][1]].href
             /\ Len(linkElementsToUnmount) = Cardinality(QueuedEls(linkElementsToUnmount))
       /\ (\E k \in Following : unmounts[k].st = "resolved"
              /\ \A j \in Following : j < k => unmounts[j].st = "resolved") =>
             /\ DOMAIN linkElements = {u \in ConfiguredUrls : ~UrlFlag(u)}
             /\ \A e \in mounts[1].created :
                   e \in Attached(head) <=> ~UrlFlag(els[e].href)
             /\ linkElementsToUnmount = <<>>

\* The configuration of the example: a bare string and a record kept
\* explicitly, mounted and then unmounted.
C6_Witness ==
    /\ Len(mounts) = 1 /\ mounts[1].st = "resolved"
    /\ Len(unmounts) = 1 /\ unmounts[1].mountsBefore = 1 /\ unmounts[1].st = "resolved"
    /\ allCssUrls = <<StringRef("a.css"), RecordRef("b.css", TRUE, FALSE)>>
    /\ opts.shouldUnmount
    /\ DOMAIN linkElements = {"b.css"}
    /\ Len(head) = 1

\* ---------------------------------------------------------------------- C7
\* A step of an unmount call: its claim, or one of its jobs.
RemoveStep ==
    /\ microtasks # <<>>
    /\ Head(microtasks).kind = "remove"
    /\ unmounts'[Head(microtasks).call].ran = unmounts[Head(microtasks).call].ran + 1
UnmountSettleStep ==
    /\ microtasks # <<>>
    /\ Head(microtasks).kind = "unmountSettle"
    /\ unmounts'[Head(microtasks).call].st # unmounts[Head(microtasks).call].st

Changed(reg1, reg2) ==
    {u \in DOMAIN reg1 \cup DOMAIN reg2 :
        ~(u \in DOMAIN reg1 /\ u \in DOMAIN reg2 /\ reg1[u] = reg2[u])}

\* C7: an unmount call claims the queue as it is at its claim step; its
\* steps detach only elements of the claimed list and change only the
\* registry entries of claimed URLs; no unmount call ever detaches an
\* element of other code or an element created with a flag of false.
C7_UnmountTouchesOnlyClaimed ==
    [][/\ UnmountStep =>
             /\ unmounts'[Len(unmounts')].claimed = linkElementsToUnmount
             /\ head' = head
             /\ linkElements' = linkElements
       /\ UnmountSettleStep => head' = head /\ linkElements' = linkElements
       /\ RemoveStep =>
             LET u == unmounts[Head(microtasks).call]
             IN /\ Attached(head) \ Attached(head') \subseteq QueuedEls(u.claimed)
                /\ Changed(linkElements, linkElements') \subseteq QueuedUrls(u.claimed)
       /\ \A k \in 1..Len(unmounts') :
             \A i \in 1..Len(unmounts'[k].detached) :
                LET el == unmounts'[k].detached[i]
                IN /\ els'[el].by = "adapter"
                   /\ els'[el].shouldUnmount
                   /\ el \in QueuedEls(unmounts'[k].claimed)]_vars

\* An unmount call has completed and detached an element, while an element
\* of other code and an element created with a flag of false, both in the
\* registry, are attached.
C7_Witness ==
    /\ \E k \in 1..Len(unmounts) :
          unmounts[k].st = "resolved" /\ unmounts[k].detached # <<>>
    /\ \E u \in DOMAIN linkElements :
          linkElements[u] \in Attached(head) /\ els[linkElements[u]].by = "external"
    /\ \E e \in Attached(head) : els[e].by = "adapter" /\ ~els[e].shouldUnmount

\* ---------------------------------------------------------------------- C8
\* C8: a mount call one of whose created elements has fired error is
\* pending, so it stays pending for ever: the error state of an element is
\* final and no action of the model (there is no timer) settles the call.
C8_ErrorLeavesMountPending ==
    \A c \in 1..Len(mounts) :
       (\E el \in mounts[c].created : els[el].state = "error") =>
          /\ mounts[c].st = "pending"
          /\ \A i \in 1..Len(microtasks) :
                ~(microtasks[i].kind = "mountSettle" /\ microtasks[i].call = c)

\* One created element of a call has failed, the other has loaded, and
\* nothing is left to run.
C8_Witness ==
    \E c \in 1..Len(mounts) :
       /\ \E el \in mounts[c].created : els[el].state = "error"
       /\ \E el \in mounts[c].created : els[el].state = "loaded"
       /\ microtasks = <<>>

\* ---------------------------------------------------------------------- C9
Called(c) == Len(mounts) >= c /\ mounts[c].st # "threw"
Resolved(c) == Len(mounts) >= c /\ mounts[c].st = "resolved"
AllLoaded(c) == \A e \in mounts[c].created : els[e].state = "loaded"
AllAdopted(c) == Called(c) /\ mounts[c].created = {}
SettleQueued(c) ==
    \E i \in 1..Len(microtasks) :
       microtasks[i].kind = "mountSettle" /\ microtasks[i].call = c

\* C9: with queued jobs eventually run, a mount call is eventually
\* fulfilled once every element it created has fired load (an element that
\* has fired load stays loaded, so this is the call being fulfilled
\* whenever all its elements eventually fire load); a call that adopted
\* every URL waits for no event: its fulfilment is queued by the call
\* itself, or has happened.
C9_MountEventuallyResolves ==
    /\ \A c \in 1..MaxMounts : (Called(c) /\ AllLoaded(c)) ~> Resolved(c)
    /\ [](\A c \in 1..MaxMounts :
            AllAdopted(c) => (Resolved(c) \/ SettleQueued(c)))

\* Two fulfilled mount calls: the first created two elements and waited
\* for their load events, the second adopted them.
C9_Witness ==
    /\ Len(mounts) = 2
    /\ Resolved(1) /\ Cardinality(mounts[1].created) = 2
    /\ Resolved(2) /\ mounts[2].created = {}
    /\ allCssUrls # <<>>

\* --------------------------------------------------------------------- C10
\* C10: an adapter is never returned for a malformed configuration.
C10_MalformedConfigurationFails ==
    ~WellFormed(input) => adapter # "returned"

\* --------------------------------------------------------------------- C11
\* The preload hints for url that are attached to doc.
Hints(doc, e, url) ==
    {x \in Attached(doc) : /\ e[x].rel = "preload" /\ e[x].as = "style"
                           /\ e[x].href = url}

BootstrapStep == bootstraps' = bootstraps + 1 /\ opts.cssUrlsIsArray

\* No hint in the document or detached from it was put there by other code.
NoExternalHint == \A x \in 1..Len(els) : els[x].by = "adapter"

\* C11: when a bootstrap call returns, every configured URL has a preload
\* hint attached; the call inserts nothing for a URL that had one when it
\* started, and only preload hints for configured URLs otherwise; and as
\* long as other code inserted no element, there is at most one hint per
\* URL in every state and exactly one per configured URL after each call,
\* however often bootstrap was called and however often the list names the
\* URL.
C11_BootstrapHints ==
    /\ [][BootstrapStep =>
            /\ \A u \in ConfiguredUrls :
                  /\ Hints(head', els', u) # {}
                  /\ Hints(head, els, u) # {} =>
                        Hints(head', els', u) = Hints(head, els, u)
                  /\ NoExternalHint => Cardinality(Hints(head', els', u)) = 1
            /\ \A x \in Attached(head') \ Attached(head) :
                  /\ els'[x] \in {preloadLink(u) : u \in ConfiguredUrls}
                  /\ Hints(head, els, els'[x].href) = {}]_vars
    /\ [](NoExternalHint =>
            \A u \in URLS : Cardinality(Hints(head, els, u)) <= 1)

\* Two bootstrap calls on a list that names the same URL twice, with one
\* hint for it in the document.
C11_Witness ==
    /\ bootstraps = 2
    /\ Len(allCssUrls) = 2
    /\ allCssUrls[1].href = allCssUrls[2].href
    /\ NoExternalHint
    /\ Cardinality(Hints(head, els, allCssUrls[1].href)) = 1

\* --------------------------------------------------------------------- C12
\* The configuration-level flag: the caller's shouldUnmount when the caller
\* set it, true otherwise.
ConfigDefault == IF input.shouldUnmount = {} THEN TRUE
                 ELSE CHOOSE x \in input.shouldUnmount : TRUE

\* C12: extractUrl returns, for a bare string, the string and the
\* configuration-level shouldUnmount flag; for a record, its href and the
\* record's own shouldUnmount when it has that field, the configuration-
\* level flag otherwise; whichever value the configuration-level flag has.
C12_ExtractUrl ==
    extracted # <<>> =>
       LET cssUrl == extracted[1]
           result == extracted[2]
       IN /\ result[1] = cssUrl.href
          /\ cssUrl.isString => result[2] = ConfigDefault
          /\ ~cssUrl.isString /\ cssUrl.hasOwn => result[2] = cssUrl.shouldUnmount
          /\ ~cssUrl.isString /\ ~cssUrl.hasOwn => result[2] = ConfigDefault

\* extractUrl applied to a record whose own flag differs from the
\* configuration-level one.
C12_Witness ==
    /\ extracted # <<>>
    /\ ~extracted[1].isString
    /\ extracted[1].hasOwn
    /\ extracted[1].shouldUnmount # ConfigDefault
    /\ extracted[2][2] = extracted[1].shouldUnmount

\* --------------------------------------------------------------------- C13
OnlyRequired(o) ==
    /\ o.isObject
    /\ o.webpackExtractedCss = {} /\ o.timeout = {}
    /\ o.shouldUnmount = {} /\ o.createLink = {}

\* C13: once singleSpaCss has merged the options, a configuration that set
\* only cssUrls has the webpack toggle off, timeout 5000, shouldUnmount
\* true and the default factory; and every optional field the caller set
\* has the caller's value.
C13_Defaults ==
    adapter # "none" /\ input.isObject =>
       /\ OnlyRequired(input) =>
             /\ opts.webpackExtractedCss = FALSE
             /\ opts.timeout = 5000
             /\ opts.shouldUnmount = TRUE
             /\ opts.createLink = "default"
       /\ input.webpackExtractedCss # {} =>
             opts.webpackExtractedCss \in input.webpackExtractedCss
       /\ input.timeout # {} => opts.timeout \in input.timeout
       /\ input.shouldUnmount # {} => opts.shouldUnmount \in input.shouldUnmount
       /\ input.createLink # {} => opts.createLink \in input.createLink

\* A configuration merged with every optional field set to a value other
\* than its default.
C13_Witness ==
    /\ adapter = "returned"
    /\ input.isObject
    /\ input.webpackExtractedCss = {TRUE} /\ opts.webpackExtractedCss
    /\ input.timeout = {1000} /\ opts.timeout = 1000
    /\ input.shouldUnmount = {FALSE} /\ ~opts.shouldUnmount
    /\ input.createLink = {"custom"} /\ opts.createLink = "custom"

\* --------------------------------------------------------------------- C14
\* The pairs a mount step appends to the queue.
Appended == SubSeq(linkElementsToUnmount', Len(linkElementsToUnmount) + 1,
                   Len(linkElementsToUnmount'))

\* C14: every queued pair names a stylesheet element for its URL that the
\* adapter created with its factory, in a mount call, for a reference whose
\* effective shouldUnmount flag was true; and the pairs a mount call appends
\* name elements that call created, never an element it found in the
\* document and adopted.
C14_QueuedAreOwnCreations ==
    /\ [](\A k \in 1..Len(linkElementsToUnmount) :
            LET el == linkElementsToUnmount[k][1]
                url == linkElementsToUnmount[k][2]
            IN /\ els[el] = [createLink(url) EXCEPT !.shouldUnmount = TRUE,
                                                     !.state = els[el].state]
               /\ \E c \in 1..Len(mounts) : el \in mounts[c].created)
    /\ [][MountStep =>
            LET call == mounts'[Len(mounts')]
            IN /\ linkElementsToUnmount' = linkElementsToUnmount \o Appended
               /\ QueuedEls(Appended) \subseteq call.created
               /\ QueuedEls(Appended) \cap (call.adopted \ call.created) = {}
               /\ QueuedEls(Appended) \cap Attached(head) = {}]_vars

\* A mount call that adopted an element of other code for one URL and
\* created and queued an element for another.
C14_Witness ==
    /\ Len(mounts) = 1
    /\ \E el \in mounts[1].adopted : els[el].by = "external"
    /\ mounts[1].created # {}
    /\ Len(linkElementsToUnmount) = 1

\* --------------------------------------------------------------------- C15
\* The elements some mount call created or adopted.
Taken == UNION {mounts[c].created \cup mounts[c].adopted : c \in 1..Len(mounts)}

\* The elements unmount callbacks detached.
DetachedByUnmount ==
    UNION {Attached(unmounts[k].detached) : k \in 1..Len(unmounts)}

\* Other code has detached no element: whatever is out of the document was
\* taken out by an unmount callback.
NoExternalDetach ==
    \A x \in 1..Len(els) : x \in Attached(head) \/ x \in DetachedByUnmount

\* A URL is registered exactly when an element the adapter created or
\* adopted for it is attached.
RegistryMatchesDocument ==
    \A u \in URLS :
       u \in DOMAIN linkElements <=>
          \E x \in Taken : els[x].href = u /\ x \in Attached(head)

UnmountJobQueued(k) ==
    \E i \in 1..Len(microtasks) :
       /\ microtasks[i].kind \in {"remove", "unmountSettle"}
       /\ microtasks[i].call = k

\* C16: whether or not the element of a claimed pair is still attached
\* (other code may have detached it), the callback for the pair deletes the
\* registry entry of its URL, leaves the element out of the document and
\* hands over to the callback of the next pair, or to the fulfilment of the
\* call after the last pair; no unmount call fails, a pending one always
\* has a job queued, and a call is fulfilled with a callback run for every
\* claimed pair and no claimed element attached.
C16_UnmountToleratesDetached ==
    /\ [][RemoveStep =>
            LET job == Head(microtasks)
                pair == unmounts[job.call].claimed[job.idx]
            IN /\ pair[2] \notin DOMAIN linkElements'
               /\ pair[1] \notin Attached(head')
               /\ unmounts'[job.call].ran = job.idx
               /\ IF job.idx = Len(unmounts[job.call].claimed)
                  THEN \E i \in 1..Len(microtasks') :
                          microtasks'[i] = Job("unmountSettle", job.call, 0)
                  ELSE Head(microtasks') = Job("remove", job.call, job.idx + 1)]_vars
    /\ [][UnmountSettleStep =>
            LET u == unmounts'[Head(microtasks).call]
            IN /\ u.st = "resolved"
               /\ u.ran = Len(u.claimed)
               /\ QueuedEls(u.claimed) \cap Attached(head') = {}]_vars
    /\ [](\A k \in 1..Len(unmounts) :
            /\ unmounts[k].st \in {"pending", "resolved"}
            /\ unmounts[k].st = "pending" => UnmountJobQueued(k))

\* A fulfilled unmount call that claimed two elements, one of which other
\* code had detached: both callbacks ran, one element was left to detach.
C16_Witness ==
    \E k \in 1..Len(unmounts) :
       /\ unmounts[k].st = "resolved"
       /\ Len(unmounts[k].claimed) = 2
       /\ unmounts[k].ran = 2
       /\ Len(unmounts[k].detached) = 1
       /\ external = 1

\* --------------------------------------------------------------------- C17
ConstructionStep == adapter = "none" /\ adapter' # "none"

\* C17: constructing an adapter leaves the caller's configuration, its
\* cssUrls list included, as it was, whether webpackExtractedCss is on or
\* not.
C17_ConstructionLeavesInputAlone ==
    [][ConstructionStep => input' = input]_vars

\* --------------------------------------------------------------------- C18
\* C18: with the adapter alone in the page (the default factory, no
\* stylesheet of other code), the document never holds two stylesheet
\* elements for one URL, whatever the order of mount and unmount calls,
\* also when the list names a URL twice and when a mount is called while
\* the elements of an earlier one are loading.
C18_OneStylesheetPerUrl ==
    \A u \in URLS : Cardinality(Stylesheets(head, els, u)) <= 1

\* The list names one URL twice and a second mount was called while the
\* element the first created for it is attached and loading.
C18_Witness ==
    /\ Len(allCssUrls) = 2
    /\ allCssUrls[1].href = allCssUrls[2].href
    /\ Len(mounts) = 2
    /\ mounts[1].st = "pending"
    /\ \E el \in mounts[1].created \cap Attached(head) :
          els[el].state = "loading" /\ el \in mounts[2].adopted

\* --------------------------------------------------------------------- C19
\* The mount calls that were fulfilled.  Every instance that completed
\* mount calls unmount once, so while fewer unmount calls than these were
\* made, some instance is still mounted.
Completed == {c \in 1..Len(mounts) : mounts[c].st = "resolved"}
SomeInstanceMounted == Len(unmounts) < Cardinality(Completed)

\* C19: while some instance that completed mount has not called unmount, an
\* unmount callback detaches no element that a completed mount call created
\* or adopted.
C19_KeptWhileAnInstanceIsMounted ==
    [][RemoveStep /\ SomeInstanceMounted =>
          \A el \in Attached(head) \ Attached(head') :
             \A c \in Completed : el \notin mounts[c].created \cup mounts[c].adopted]_vars

\* --------------------------------------------------------------------- C20
\* The attached stylesheet elements the adapter created for configured
\* URLs that have not fired load, in the state a step leads to.
StillLoading ==
    {el \in Attached(head') : /\ els'[el].by = "adapter"
                              /\ els'[el].rel = "stylesheet"
                              /\ els'[el].href \in ConfiguredUrls
                              /\ els'[el].state # "loaded"}

\* C20 as stated: when a mount call is fulfilled, every attached stylesheet
\* element the adapter created for a configured URL has fired load, also
\* when the call overlaps an earlier one whose elements are loading.
C20_ResolvedMeansAllLoaded ==
    [][\A c \in 1..Len(mounts) : Resolves(c) => StillLoading = {}]_vars

\* C20 amended: when a mount call is fulfilled, every element that call
\* created has fired load; an attached element of the adapter that has not
\* was created by another mount call of the adapter, whose load the call
\* does not wait for, whether it adopted the element or not.
C20_ResolvedMeansOwnLoaded ==
    [][\A c \in 1..Len(mounts) :
          Resolves(c) =>
             /\ \A el \in mounts[c].created : els'[el].state = "loaded"
             /\ \A el \in StillLoading :
                   /\ el \notin mounts[c].created
                   /\ \E d \in 1..Len(mounts) \ {c} : el \in mounts[d].created]_vars

\* A fulfilled mount call that created an element, which has fired load,
\* and adopted an element of an earlier, pending call, which has not.
C20_Witness ==
    /\ Len(mounts) = 2
    /\ mounts[1].st = "pending"
    /\ mounts[2].st = "resolved"
    /\ \E el \in mounts[2].created : els[el].state = "loaded"
    /\ \E el \in mounts[2].adopted \cap mounts[1].created \cap Attached(head) :
          els[el].state = "loading"

====
